---- MODULE Spec2Model ----
(***************************************************************************)
(* A model of key-did-provider-secp256k1 (src/src/index.ts): the codec      *)
(* utilities, the JOSE signature converter, the JWS builder, the two        *)
(* signers and the two providers' RPC method tables.                        *)
(*                                                                         *)
(* Strings are sequences of character codes (ASCII / UTF-16 code units),    *)
(* byte arrays are sequences of 0..255.  A function of the source that can   *)
(* throw is an operator returning [ok, v, err].                             *)
(***************************************************************************)
EXTENDS Integers, Sequences, FiniteSets, TLC

VARIABLES
    ctx,        \* Context of the Secp256k1Provider: [did, secretKey]
    litCtx,     \* LitContext of the Secp256k1ProviderWithLit: [did]
    heap,       \* the caller's protected-header objects, by reference
    calls,      \* the RPC calls in flight, one record per call
    jose,       \* the last application of toJose / fromJose / a signer
    jws         \* the last application of createJWS / toGeneralJWS

vars == <<ctx, litCtx, heap, calls, jose, jws>>

\* ------------------------------------------------------------------ bounds

MaxCalls == 2
MaxObjs == 1

\* ----------------------------------------------------------------- strings

Rep(n, c) == [i \in 1..n |-> c]

Ok(v) == [ok |-> TRUE, v |-> v, err |-> ""]
Throw(e) == [ok |-> FALSE, v |-> <<>>, err |-> e]

RECURSIVE Flatten(_)
Flatten(ss) == IF Len(ss) = 0 THEN <<>> ELSE Head(ss) \o Flatten(Tail(ss))

\* String.prototype.split(sep) for a one-character separator: the parts
\* between the separators, one more than there are separators
split(s, sep) ==
    LET at == {i \in 1..Len(s) : s[i] = sep}
        nth(k) == IF k = 0 THEN 0
                  ELSE IF k > Cardinality(at) THEN Len(s) + 1
                  ELSE CHOOSE i \in at : Cardinality({j \in at : j < i}) = k - 1
    IN  [k \in 1..(Cardinality(at) + 1) |-> SubSeq(s, nth(k - 1) + 1, nth(k) - 1)]

\* [a, b].join('.')
joinDot(a, b) == a \o <<46>> \o b

\* an array element that may be missing: template literals print "undefined"
strUndefined == <<117, 110, 100, 101, 102, 105, 110, 101, 100>>
At(parts, i) == IF i <= Len(parts) THEN parts[i] ELSE strUndefined

\* an array element that may be missing, as a value: undefined is <<-1>>
Nth(parts, i) == IF i <= Len(parts) THEN parts[i] ELSE <<-1>>

\* '0'.repeat(n): RangeError for a negative count
leftpad(data, size) ==
    IF Len(data) = size THEN Ok(data)
    ELSE IF size - Len(data) < 0 THEN Throw("RangeError")
    ELSE Ok(Rep(size - Len(data), 48) \o data)

\* ------------------------------------------------------------- uint8arrays

Present(x) == x >= 0

\* u8a.fromString(s) (utf8) of code units below 0x800: one byte below 0x80,
\* two from there on
utf8FromString(s) ==
    SelectSeq([i \in 1..(2 * Len(s)) |->
                  LET c == s[(i + 1) \div 2]
                  IN  IF i % 2 = 1
                      THEN (IF c < 128 THEN c ELSE 192 + (c \div 64))
                      ELSE (IF c < 128 THEN -1 ELSE 128 + (c % 64))],
              Present)

HexDigit(n) == IF n < 10 THEN 48 + n ELSE 87 + n
HexValue(c) == IF c >= 48 /\ c <= 57 THEN c - 48
               ELSE IF c >= 97 /\ c <= 102 THEN c - 87 ELSE -1

\* u8a.toString(b, 'base16')
bytesToHex(b) ==
    [i \in 1..(2 * Len(b)) |->
        IF i % 2 = 1 THEN HexDigit(b[(i + 1) \div 2] \div 16)
        ELSE HexDigit(b[i \div 2] % 16)]

\* u8a.fromString(s, 'base16'): rfc4648 decoding with 4 bits per character
base16FromString(s) ==
    IF \E i \in 1..Len(s) : HexValue(s[i]) < 0 THEN Throw("SyntaxError")
    ELSE IF Len(s) % 2 = 1 THEN Throw("SyntaxError")
    ELSE Ok([k \in 1..(Len(s) \div 2) |->
                16 * HexValue(s[2 * k - 1]) + HexValue(s[2 * k])])

B64Char(n) == IF n < 26 THEN 65 + n
              ELSE IF n < 52 THEN 71 + n
              ELSE IF n < 62 THEN n - 4
              ELSE IF n = 62 THEN 45 ELSE 95
B64Value(c) == IF c >= 65 /\ c <= 90 THEN c - 65
               ELSE IF c >= 97 /\ c <= 122 THEN c - 71
               ELSE IF c >= 48 /\ c <= 57 THEN c + 4
               ELSE IF c = 45 THEN 62
               ELSE IF c = 95 THEN 63 ELSE -1

ByteAt(b, i) == IF i <= Len(b) THEN b[i] ELSE 0

\* u8a.toString(b, 'base64url'): rfc4648 encoding with 6 bits per character,
\* no padding
bytesToBase64url(b) ==
    [i \in 1..((8 * Len(b) + 5) \div 6) |->
        LET g == (i - 1) \div 4
            p == (i - 1) % 4
            b0 == ByteAt(b, 3 * g + 1)
            b1 == ByteAt(b, 3 * g + 2)
            b2 == ByteAt(b, 3 * g + 3)
        IN  B64Char(CASE p = 0 -> b0 \div 4
                      [] p = 1 -> (b0 % 4) * 16 + (b1 \div 16)
                      [] p = 2 -> (b1 % 16) * 4 + (b2 \div 64)
                      [] OTHER -> b2 % 64)]

\* u8a.fromString(s, 'base64url'): a character outside the alphabet, a lone
\* trailing character or non-zero trailing bits are a SyntaxError
base64urlFromString(s) ==
    LET n == Len(s)
        rest == (6 * n) % 8
        last == IF n = 0 THEN 0 ELSE B64Value(s[n])
    IN  IF \E i \in 1..n : B64Value(s[i]) < 0 THEN Throw("SyntaxError")
        ELSE IF rest = 6 THEN Throw("SyntaxError")
        ELSE IF rest = 4 /\ last % 16 # 0 THEN Throw("SyntaxError")
        ELSE IF rest = 2 /\ last % 4 # 0 THEN Throw("SyntaxError")
        ELSE Ok([k \in 1..((6 * n) \div 8) |->
                LET q == (8 * (k - 1)) \div 6 + 1
                    off == (8 * (k - 1)) % 6
                    v0 == B64Value(s[q])
                    v1 == B64Value(s[q + 1])
                IN  CASE off = 0 -> v0 * 4 + (v1 \div 16)
                      [] off = 2 -> (v0 % 16) * 16 + (v1 \div 4)
                      [] OTHER -> (v0 % 4) * 64 + v1])

encodeBase64url(s) == bytesToBase64url(utf8FromString(s))

\* s.replace(/\+/g, '-').replace(/\//g, '_').replace(/=/g, '')
normalizeBase64(s) ==
    SelectSeq([i \in 1..Len(s) |->
                  IF s[i] = 61 THEN -1
                  ELSE IF s[i] = 43 THEN 45
                  ELSE IF s[i] = 47 THEN 95 ELSE s[i]],
              Present)

base64ToBytes(s) == base64urlFromString(normalizeBase64(s))

\* -------------------------------------------------------------------- JSON

\* A JSON value: [t, s, kv].  t is the typeof/shape; s holds a string's code
\* units or a number's decimal digits; kv holds an object's members in
\* property order, as <<[k, v], ...>>, or an array's elements (k empty).
JUndefined == [t |-> "undefined", s |-> <<>>, kv |-> <<>>]
JStr(s) == [t |-> "string", s |-> s, kv |-> <<>>]
JObj(kv) == [t |-> "object", s |-> <<>>, kv |-> kv]
JArr(items) == [t |-> "array", s |-> <<>>,
                kv |-> [i \in 1..Len(items) |-> [k |-> <<>>, v |-> items[i]]]]

RECURSIVE Decimal(_)
Decimal(n) == IF n < 10 THEN <<48 + n>> ELSE Decimal(n \div 10) \o <<48 + (n % 10)>>
JNum(n) == [t |-> "number", s |-> Decimal(n), kv |-> <<>>]

Member(k, v) == [k |-> k, v |-> v]

HasKey(obj, k) == \E i \in 1..Len(obj.kv) : obj.kv[i].k = k
Get(obj, k) ==
    IF HasKey(obj, k)
    THEN obj.kv[CHOOSE i \in 1..Len(obj.kv) : obj.kv[i].k = k].v
    ELSE JUndefined

\* obj[k] = v: an existing property keeps its place, a new one is appended
Put(obj, k, v) ==
    IF HasKey(obj, k)
    THEN JObj([i \in 1..Len(obj.kv) |->
                 IF obj.kv[i].k = k THEN Member(k, v) ELSE obj.kv[i]])
    ELSE JObj(Append(obj.kv, Member(k, v)))

\* Object.assign(target, source): returns the mutated target
RECURSIVE ObjectAssign(_, _)
ObjectAssign(target, source) ==
    IF Len(source.kv) = 0 THEN target
    ELSE ObjectAssign(Put(target, source.kv[1].k, source.kv[1].v),
                      JObj(Tail(source.kv)))

RECURSIVE JoinComma(_)
JoinComma(ss) == IF Len(ss) = 0 THEN <<>>
                 ELSE IF Len(ss) = 1 THEN ss[1]
                 ELSE ss[1] \o <<44>> \o JoinComma(Tail(ss))

\* a JSON string literal: '"' and '\' are escaped
Quote(s) ==
    <<34>> \o SelectSeq([i \in 1..(2 * Len(s)) |->
                  LET c == s[(i + 1) \div 2]
                      escaped == c = 34 \/ c = 92
                  IN  IF i % 2 = 1 THEN (IF escaped THEN 92 ELSE c)
                      ELSE (IF escaped THEN c ELSE -1)],
              Present) \o <<34>>

IsDefined(e) == e.v.t # "undefined"

\* JSON.stringify: members in property order, undefined members left out
RECURSIVE JSONstringify(_)
JSONstringify(v) ==
    CASE v.t = "string" -> Quote(v.s)
      [] v.t = "number" -> v.s
      [] v.t = "array" ->
            <<91>> \o JoinComma([i \in 1..Len(v.kv) |-> JSONstringify(v.kv[i].v)])
                   \o <<93>>
      [] OTHER ->
            LET ms == SelectSeq(v.kv, IsDefined)
            IN  <<123>> \o JoinComma([i \in 1..Len(ms) |->
                              Quote(ms[i].k) \o <<58>> \o JSONstringify(ms[i].v)])
                        \o <<125>>

\* the default comparison of Array.prototype.sort: by code units
LexLess(a, b) ==
    \E i \in 1..(Len(a) + 1) :
        /\ \A j \in 1..(i - 1) : j <= Len(b) /\ a[j] = b[j]
        /\ IF i > Len(a) THEN Len(b) >= i
           ELSE i <= Len(b) /\ a[i] < b[i]

RECURSIVE InsertByKey(_, _)
InsertByKey(e, sorted) ==
    IF Len(sorted) = 0 THEN <<e>>
    ELSE IF LexLess(e.k, Head(sorted).k) THEN <<e>> \o sorted
    ELSE <<Head(sorted)>> \o InsertByKey(e, Tail(sorted))

RECURSIVE SortByKey(_)
SortByKey(kv) == IF Len(kv) = 0 THEN <<>>
                 ELSE InsertByKey(Head(kv), SortByKey(Tail(kv)))

\* a slip toStableObject could have: JSON.stringify in place of the stable
\* stringify, which keeps the property order
toStableObject_propertyOrder(obj) ==
    IF obj.t = "object" THEN JObj(SelectSeq(obj.kv, IsDefined)) ELSE obj

\* JSON.parse(stringify(obj)) with fast-json-stable-stringify: the object
\* rebuilt with its keys in sorted order at every level and its undefined
\* members gone
RECURSIVE toStableObject(_)
toStableObject(obj) ==
    CASE obj.t = "object" ->
            LET ms == SortByKey(SelectSeq(obj.kv, IsDefined))
            IN  JObj([i \in 1..Len(ms) |-> Member(ms[i].k, toStableObject(ms[i].v))])
      [] obj.t = "array" ->
            JArr([i \in 1..Len(obj.kv) |-> toStableObject(obj.kv[i].v)])
      [] OTHER -> obj

encodeSection(data) == encodeBase64url(JSONstringify(data))

\* ------------------------------------------------- JOSE signature converter

\* EcdsaSignature [r, s, recoveryParam]; a missing recoveryParam is Undefined
Undefined == -1
Sig(r, s, rp) == [r |-> r, s |-> s, recoveryParam |-> rp]

\* TypedArray.prototype.set(source, offset): RangeError when it does not fit
TypedArraySet(buf, source, offset) ==
    IF offset + Len(source) > Len(buf) THEN Throw("RangeError")
    ELSE Ok([i \in 1..Len(buf) |->
                IF i > offset /\ i <= offset + Len(source)
                THEN source[i - offset] ELSE buf[i]])

\* a slip toJose could have: the recovery byte is never written
toJose_sixtyFour(sig, recoverable) ==
    LET rb == base16FromString(sig.r)
        j1 == IF rb.ok THEN TypedArraySet(Rep(64, 0), rb.v, 0) ELSE rb
        sb == base16FromString(sig.s)
        j2 == IF ~j1.ok THEN j1
              ELSE IF ~sb.ok THEN sb
              ELSE TypedArraySet(j1.v, sb.v, 32)
    IN  IF ~j2.ok THEN j2 ELSE Ok(bytesToBase64url(j2.v))

toJose(sig, recoverable) ==
    LET jose0 == Rep(IF recoverable THEN 65 ELSE 64, 0)
        rb == base16FromString(sig.r)
        j1 == IF rb.ok THEN TypedArraySet(jose0, rb.v, 0) ELSE rb
        sb == base16FromString(sig.s)
        j2 == IF ~j1.ok THEN j1
              ELSE IF ~sb.ok THEN sb
              ELSE TypedArraySet(j1.v, sb.v, 32)
    IN  IF ~j2.ok THEN j2
        ELSE IF ~recoverable THEN Ok(bytesToBase64url(j2.v))
        ELSE IF sig.recoveryParam = Undefined
        THEN Throw("Signer did not return a recoveryParam")
        ELSE Ok(bytesToBase64url(
                    [j2.v EXCEPT ![65] = sig.recoveryParam % 256]))

\* Array.prototype.slice(from, to) on a byte array, 0-based and end-exclusive
slice(b, from, to) ==
    SubSeq(b, from + 1, IF to < Len(b) THEN to ELSE Len(b))

\* a slip fromJose could have: the upper limit off by one
fromJose_lenient(signature) ==
    LET signatureBytes == base64ToBytes(signature)
    IN  IF ~signatureBytes.ok THEN signatureBytes
        ELSE IF Len(signatureBytes.v) < 64 \/ Len(signatureBytes.v) > 66
        THEN Throw("Wrong size for signature")
        ELSE Ok(Sig(bytesToHex(slice(signatureBytes.v, 0, 32)),
                    bytesToHex(slice(signatureBytes.v, 32, 64)),
                    IF Len(signatureBytes.v) = 65
                    THEN signatureBytes.v[65] ELSE Undefined))

fromJose(signature) ==
    LET signatureBytes == base64ToBytes(signature)
    IN  IF ~signatureBytes.ok THEN signatureBytes
        ELSE IF Len(signatureBytes.v) < 64 \/ Len(signatureBytes.v) > 65
        THEN Throw("Wrong size for signature")
        ELSE Ok(Sig(bytesToHex(slice(signatureBytes.v, 0, 32)),
                    bytesToHex(slice(signatureBytes.v, 32, 64)),
                    IF Len(signatureBytes.v) = 65
                    THEN signatureBytes.v[65] ELSE Undefined))

\* ----------------------------------------------------------------- signers

\* What a Signer resolves to: an EcdsaSignature object or a string
SignedObject(sig) == [kind |-> "object", sig |-> sig, str |-> <<>>]
SignedString(str) == [kind |-> "string", sig |-> Sig(<<>>, <<>>, Undefined), str |-> str]

\* The signer ES256KSigner(privateKey, recoverable) returns, applied to data;
\* ec is what keyPair.sign(sha256(data)) returned, r and s as r.toString('hex')
ES256KSigner(privateKey, recoverable, ec) ==
    IF Len(privateKey) # 32 THEN Throw("bad_key")
    ELSE LET r == leftpad(ec.r, 64)
             s == leftpad(ec.s, 64)
         IN  IF ~r.ok THEN r
             ELSE IF ~s.ok THEN s
             ELSE toJose(Sig(r.v, s.v, ec.recoveryParam), recoverable)

\* The signer ES256KSignerWithLit() returns, applied to data; sig1 is the
\* [r, s, recid] that litActionSignAndGetSignature(sha256(data)) resolved to
ES256KSignerWithLit(sig1) ==
    toJose(Sig(sig1.r, sig1.s, sig1.recid), FALSE)

\* ES256KSignerAlg(recoverable) applied to what the signer resolved to
ES256KSignerAlg(recoverable, signature) ==
    IF signature.kind = "object" THEN toJose(signature.sig, recoverable)
    ELSE IF ~recoverable THEN Ok(signature.str)
    ELSE LET parsed == fromJose(signature.str)
         IN  IF ~parsed.ok THEN parsed
             ELSE IF parsed.v.recoveryParam = Undefined THEN Throw("not_supported")
             ELSE Ok(signature.str)

strES256K == <<69, 83, 50, 53, 54, 75>>
strAlg == <<97, 108, 103>>
strKid == <<107, 105, 100>>

\* algorithms[alg]: only ES256K, not recoverable
SignerAlg(alg) ==
    IF alg = strES256K THEN Ok(FALSE) ELSE Throw("not_supported")

\* ---------------------------------------------------------------- JWS builder

\* !header.alg
NoAlg(header) == Get(header, strAlg).t = "undefined" \/ Get(header, strAlg).s = <<>>

\* a slip createJWS could have: an object payload is left as JSON text
createJWSInput_raw(payload, header) ==
    LET h == IF NoAlg(header) THEN Put(header, strAlg, JStr(strES256K)) ELSE header
        encodedPayload == IF payload.t = "string" THEN payload.s
                          ELSE JSONstringify(payload)
        signingInput == joinDot(encodeSection(h), encodedPayload)
        jwtSigner == SignerAlg(Get(h, strAlg).s)
    IN  IF ~jwtSigner.ok THEN jwtSigner
        ELSE Ok([header |-> h, encodedPayload |-> encodedPayload,
                 signingInput |-> signingInput, recoverable |-> jwtSigner.v])

\* createJWS up to the call of the signer: the header as createJWS leaves it,
\* the encoded payload and the signing input
createJWSInput(payload, header) ==
    LET h == IF NoAlg(header) THEN Put(header, strAlg, JStr(strES256K)) ELSE header
        encodedPayload == IF payload.t = "string" THEN payload.s
                          ELSE encodeSection(payload)
        signingInput == joinDot(encodeSection(h), encodedPayload)
        jwtSigner == SignerAlg(Get(h, strAlg).s)
    IN  IF ~jwtSigner.ok THEN jwtSigner
        ELSE Ok([header |-> h, encodedPayload |-> encodedPayload,
                 signingInput |-> signingInput, recoverable |-> jwtSigner.v])

\* createJWS from what the signer resolved to, to the joined compact string
createJWSJoin(input, signed) ==
    LET signature == ES256KSignerAlg(input.recoverable, signed)
    IN  IF ~signature.ok THEN signature
        ELSE Ok(joinDot(input.signingInput, signature.v))

createJWS(payload, signed, header) ==
    LET input == createJWSInput(payload, header)
    IN  IF ~input.ok THEN input ELSE createJWSJoin(input.v, signed)

\* createJWS2 has createJWS's body
createJWS2(payload, signed, header) ==
    LET input == createJWSInput(payload, header)
    IN  IF ~input.ok THEN input ELSE createJWSJoin(input.v, signed)

\* const [protectedHeader, payload, signature] = jws.split('.')
toGeneralJWS(compact) ==
    LET parts == split(compact, 46)
    IN  [payload |-> Nth(parts, 2),
         signatures |-> <<[protected |-> Nth(parts, 1), signature |-> Nth(parts, 3)]>>]

\* ------------------------------------------------------------ method table

strDid == <<100, 105, 100>>
strAud == <<97, 117, 100>>
strNonce == <<110, 111, 110, 99, 101>>
strPaths == <<112, 97, 116, 104, 115>>
strExp == <<101, 120, 112>>

\* `${did}#${did.split(':')[2]}`
kidOf(did) == did \o <<35>> \o At(split(did, 58), 3)

\* { kid, alg: 'ES256K' }
KidAlg(did) == JObj(<<Member(strKid, JStr(kidOf(did))), Member(strAlg, JStr(strES256K))>>)

\* payload and header as sign and signWithLit hand them to createJWS
StablePayload(payload) == IF payload.t = "string" THEN payload ELSE toStableObject(payload)

\* sign, from the object Object.assign returned (the caller's protectedHeader,
\* mutated) on: the signer is built first and a bad key throws before anything
\* else happens; the local signer runs inside createJWS
signFrom(assigned, before, payload, secretKey, ec) ==
    IF Len(secretKey) # 32
    THEN [assigned |-> before, header |-> JUndefined, input |-> Throw("bad_key"),
          signerCalls |-> 0, compact |-> Throw("bad_key")]
    ELSE LET header == toStableObject(assigned)
             input == createJWSInput(StablePayload(payload), header)
             signed == ES256KSigner(secretKey, FALSE, ec)
         IN  [assigned |-> assigned,
              header |-> IF input.ok THEN input.v.header ELSE header,
              input |-> input,
              signerCalls |-> IF input.ok THEN 1 ELSE 0,
              compact |-> IF ~input.ok THEN input
                          ELSE IF ~signed.ok THEN signed
                          ELSE createJWSJoin(input.v, SignedString(signed.v))]

\* a slip sign could have: the forced fields first, the caller's over them
sign_callerWins(payload, did, secretKey, protectedHeader, ec) ==
    signFrom(ObjectAssign(KidAlg(did), protectedHeader), protectedHeader,
             payload, secretKey, ec)

sign(payload, did, secretKey, protectedHeader, ec) ==
    signFrom(ObjectAssign(protectedHeader, KidAlg(did)), protectedHeader,
             payload, secretKey, ec)

\* signWithLit up to the remote signer's first await
signWithLit(payload, did, protectedHeader) ==
    LET assigned == ObjectAssign(protectedHeader, KidAlg(did))
        header == toStableObject(assigned)
        input == createJWSInput(StablePayload(payload), header)
    IN  [assigned |-> assigned,
         header |-> IF input.ok THEN input.v.header ELSE header,
         input |-> input]

\* createJWS2 once the remote signer has its sig1 back
signWithLitResume(input, sig1) ==
    LET signed == ES256KSignerWithLit(sig1)
    IN  IF ~signed.ok THEN signed ELSE createJWSJoin(input, SignedString(signed.v))

\* Math.floor(Date.now() / 1000) + 600
expOf(now) == (now \div 1000) + 600

\* the payload did_authenticate signs
authPayload(did, params, now) ==
    JObj(<<Member(strDid, JStr(did)), Member(strAud, params.aud),
           Member(strNonce, params.nonce), Member(strPaths, params.paths),
           Member(strExp, JNum(expOf(now)))>>)

\* a slip did_createJWS could have: params.did compared as it came
requestDid_whole(params) == params.did

\* params.did.split('#')[0]
requestDid(params) == split(params.did, 35)[1]

UnknownDID == 4100

\* -------------------------------------------------------------- input sets

DidA == <<100, 105, 100, 58, 107, 101, 121, 58, 122, 65>>       \* did:key:zA
DidB == <<100, 105, 100, 58, 107, 101, 121, 58, 122, 66>>       \* did:key:zB
DIDs == {DidA, DidB}

\* a 32-byte seed
Seed == [i \in 1..32 |-> i]

\* params.did of a did_createJWS request
RequestDids == {DidA, kidOf(DidA), kidOf(DidB)}

strTyp == <<116, 121, 112>>
strJWT == <<74, 87, 84>>
strNone == <<110, 111, 110, 101>>

\* what the caller's protected-header objects hold before any call:
\* {kid: 'x', typ: 'JWT', alg: 'none'}
HeaderObjs ==
    { JObj(<<Member(strKid, JStr(<<120>>)), Member(strTyp, JStr(strJWT)),
             Member(strAlg, JStr(strNone))>>) }

\* payloads: {"a":1,"b":"2"} in both key orders, the string "e30" and the
\* string "e30.e30"
PayloadAB == JObj(<<Member(<<97>>, JNum(1)), Member(<<98>>, JStr(<<50>>))>>)
PayloadBA == JObj(<<Member(<<98>>, JStr(<<50>>)), Member(<<97>>, JNum(1))>>)
PayloadString == JStr(<<101, 51, 48>>)
PayloadDotted == JStr(<<101, 51, 48, 46, 101, 51, 48>>)

\* params.payload of a did_createJWS request
Payloads == {PayloadBA, PayloadString, PayloadDotted}

\* hex strings: 64 digits, 64 digits with leading zeros, and shorter ones
HexFull == [i \in 1..64 |-> HexDigit((i * 7) % 16)]
HexZeros == Rep(62, 48) \o <<48, 49>>
Hex63 == SubSeq(HexFull, 2, 64)
Hex62 == SubSeq(HexFull, 3, 64)
Hex2 == <<55, 102>>

\* what keyPair.sign can return: r and s below 2^256, printed without leading
\* zeros
EcSignatures == { Sig(HexFull, HexFull, 0), Sig(Hex63, Hex62, 1) }

\* what keyPair.sign returns to a provider's call
ProviderEcSignatures == { Sig(Hex63, Hex62, 1) }

\* what the remote signer can return as sig1
LitSignatures ==
    { [r |-> HexFull, s |-> HexFull, recid |-> 0],
      [r |-> Hex62, s |-> HexFull, recid |-> 1],
      [r |-> Hex63, s |-> HexFull, recid |-> 1] }

\* what the remote signer returns to a provider's call: one sig1 toJose
\* takes and one it throws on
ProviderLitSignatures ==
    { [r |-> HexFull, s |-> HexFull, recid |-> 0],
      [r |-> Hex63, s |-> HexFull, recid |-> 1] }

\* params of a did_authenticate request: aud is optional and left out
AuthParams ==
    { [aud |-> JUndefined, nonce |-> JStr(<<110>>), paths |-> JArr(<<JStr(<<47>>)>>)] }

\* Date.now()
Clock == {1999}

\* -------------------------------------------------------------- the providers

NoJWS == [payload |-> <<>>, signatures |-> <<>>]
NoParams == [did |-> <<>>, payload |-> JUndefined, protected |-> 0,
             aud |-> JUndefined, nonce |-> JUndefined, paths |-> JUndefined]

\* A call: pc is where it stands (idle, signed: the compact JWS is settled
\* and the handler is about to resume, litConnect / litWait: inside the remote
\* signer, done, failed).  before is the state the call found; signCount
\* counts the signer backend's invocations.
IdleCall ==
    [pc |-> "idle", provider |-> "", method |-> "", params |-> NoParams,
     before |-> <<>>, header |-> JUndefined, input |-> Throw(""),
     compact |-> Throw(""), signCount |-> 0,
     result |-> [kind |-> "", jws |-> NoJWS], errCode |-> 0, err |-> ""]

Calls == 1..MaxCalls
Objs == 1..MaxObjs

Snapshot == [ctx |-> ctx, litCtx |-> litCtx, heap |-> heap]

\* params.protected, or the default {} of sign
ProtectedOf(params) ==
    IF params.protected = 0 THEN JObj(<<>>) ELSE heap[params.protected]

\* the object Object.assign mutated is the caller's when there is one
HeapAfter(params, assigned) ==
    IF params.protected = 0 THEN heap
    ELSE [heap EXCEPT ![params.protected] = assigned]

\* a call slot is taken in order
Free(c) == calls[c].pc = "idle" /\ (IF c = 1 THEN TRUE ELSE calls[c - 1].pc # "idle")

Init ==
    /\ ctx \in [did : DIDs, secretKey : {Seed}]
    /\ litCtx \in [did : {DidA}]
    /\ heap \in [Objs -> HeaderObjs]
    /\ calls = [c \in Calls |-> IdleCall]
    /\ jose = <<>>
    /\ jws = <<>>

\* didMethods.did_authenticate
did_authenticate(c) ==
    /\ Free(c)
    /\ \E params \in AuthParams, now \in Clock, ec \in ProviderEcSignatures :
        \E response \in {sign(authPayload(ctx.did, params, now), ctx.did,
                              ctx.secretKey, JObj(<<>>), ec)} :
            calls' = [calls EXCEPT ![c] =
                [IdleCall EXCEPT
                    !.pc = IF response.compact.ok THEN "signed" ELSE "failed",
                    !.provider = "local", !.method = "did_authenticate",
                    !.params = [NoParams EXCEPT !.aud = params.aud,
                                                !.nonce = params.nonce,
                                                !.paths = params.paths],
                    !.before = Snapshot,
                    !.header = response.header, !.input = response.input,
                    !.compact = response.compact,
                    !.signCount = response.signerCalls,
                    !.err = response.compact.err]]
    /\ UNCHANGED <<ctx, litCtx, heap, jose, jws>>

\* didMethods.did_createJWS
did_createJWS(c) ==
    /\ Free(c)
    /\ \E did \in RequestDids, payload \in Payloads, protected \in {0} \cup Objs,
          ec \in ProviderEcSignatures :
        \E params \in {[NoParams EXCEPT !.did = did, !.payload = payload,
                                        !.protected = protected]} :
            IF requestDid(params) # ctx.did
            THEN /\ calls' = [calls EXCEPT ![c] =
                        [IdleCall EXCEPT
                            !.pc = "failed", !.provider = "local",
                            !.method = "did_createJWS", !.params = params,
                            !.before = Snapshot, !.errCode = UnknownDID,
                            !.err = "Unknown DID"]]
                 /\ heap' = heap
            ELSE \E jwsOut \in {sign(payload, ctx.did, ctx.secretKey,
                                     ProtectedOf(params), ec)} :
                    /\ calls' = [calls EXCEPT ![c] =
                            [IdleCall EXCEPT
                                !.pc = IF jwsOut.compact.ok THEN "signed" ELSE "failed",
                                !.provider = "local",
                                !.method = "did_createJWS", !.params = params,
                                !.before = Snapshot,
                                !.header = jwsOut.header, !.input = jwsOut.input,
                                !.compact = jwsOut.compact,
                                !.signCount = jwsOut.signerCalls,
                                !.err = jwsOut.compact.err]]
                    /\ heap' = HeapAfter(params, jwsOut.assigned)
    /\ UNCHANGED <<ctx, litCtx, jose, jws>>

\* didMethods.did_decryptJWE
did_decryptJWE(c) ==
    /\ Free(c)
    /\ calls' = [calls EXCEPT ![c] =
            [IdleCall EXCEPT !.pc = "done", !.provider = "local",
                             !.method = "did_decryptJWE", !.before = Snapshot,
                             !.result = [kind |-> "cleartext", jws |-> NoJWS]]]
    /\ UNCHANGED <<ctx, litCtx, heap, jose, jws>>

\* didMethodsWithLit.did_authenticate, to the remote signer's first await
lit_did_authenticate(c) ==
    /\ Free(c)
    /\ \E params \in AuthParams, now \in Clock :
        \E response \in {signWithLit(authPayload(litCtx.did, params, now),
                                     litCtx.did, JObj(<<>>))} :
            calls' = [calls EXCEPT ![c] =
                [IdleCall EXCEPT
                    !.pc = IF response.input.ok THEN "litConnect" ELSE "failed",
                    !.provider = "lit", !.method = "did_authenticate",
                    !.params = [NoParams EXCEPT !.aud = params.aud,
                                                !.nonce = params.nonce,
                                                !.paths = params.paths],
                    !.before = Snapshot,
                    !.header = response.header, !.input = response.input,
                    !.err = response.input.err]]
    /\ UNCHANGED <<ctx, litCtx, heap, jose, jws>>

\* a retry a remote signer could have: the request goes out and the call
\* stays where a second request goes out
litExecuteJs_retry(c) ==
    /\ calls[c].pc = "litConnect"
    /\ calls' = [calls EXCEPT ![c].signCount = @ + 1,
                              ![c].pc = IF calls[c].signCount = 0
                                        THEN "litConnect" ELSE "litWait"]
    /\ UNCHANGED <<ctx, litCtx, heap, jose, jws>>

\* litActionSignAndGetSignature: authenticated and connected, the signing
\* request goes out (litNodeClient.executeJs)
litExecuteJs(c) ==
    /\ calls[c].pc = "litConnect"
    /\ calls' = [calls EXCEPT ![c].signCount = @ + 1, ![c].pc = "litWait"]
    /\ UNCHANGED <<ctx, litCtx, heap, jose, jws>>

\* the remote signer answers: toJose, the join, and signWithLit has its jws
litReturn(c) ==
    /\ calls[c].pc = "litWait"
    /\ \E sig1 \in ProviderLitSignatures :
        \E compact \in {signWithLitResume(calls[c].input.v, sig1)} :
            calls' = [calls EXCEPT ![c].compact = compact,
                                  ![c].pc = IF compact.ok THEN "signed" ELSE "failed",
                                  ![c].err = compact.err]
    /\ UNCHANGED <<ctx, litCtx, heap, jose, jws>>

\* authentication, the connection or the request fails: no retry, the call fails
litError(c) ==
    /\ calls[c].pc \in {"litConnect", "litWait"}
    /\ calls' = [calls EXCEPT ![c].pc = "failed", ![c].err = "network"]
    /\ UNCHANGED <<ctx, litCtx, heap, jose, jws>>

\* the handler resumes with the compact JWS and returns its result
return(c) ==
    /\ calls[c].pc = "signed"
    /\ calls' = [calls EXCEPT
            ![c].pc = "done",
            ![c].result = [kind |-> IF calls[c].method = "did_createJWS"
                                    THEN "jws" ELSE "GeneralJWS",
                           jws |-> toGeneralJWS(calls[c].compact.v)]]
    /\ UNCHANGED <<ctx, litCtx, heap, jose, jws>>

Next ==
    \E c \in Calls :
        \/ did_authenticate(c)
        \/ did_createJWS(c)
        \/ did_decryptJWE(c)
        \/ lit_did_authenticate(c)
        \/ litExecuteJs(c)
        \/ litReturn(c)
        \/ litError(c)
        \/ return(c)

Spec == Init /\ [][Next]_vars

\* ------------------------------------------- the converter and the signers

\* r and s a caller of toJose can pass
HexStrings == {HexFull, HexZeros, Hex63, Hex62, Hex2}

RecoveryParams == {Undefined, 0, 1}

\* r and s of keyPair.sign, printed by BN.toString('hex'): no leading zeros
EcHexStrings == {HexFull, Hex63, Hex62, Hex2}

SeedShort == [i \in 1..31 |-> i]

\* byte arrays fromJose can be handed, by length
Pattern(n, k) == [i \in 1..n |-> (i * k + n) % 256]
SignatureLengths == {0, 1, 63, 64, 65, 66}
SignatureBytes == { Pattern(n, k) : n \in SignatureLengths, k \in {3, 251} }

\* base64 with '+', '/' and '=' padding, from base64url
base64Of(str) ==
    [i \in 1..Len(str) |-> IF str[i] = 45 THEN 43
                           ELSE IF str[i] = 95 THEN 47 ELSE str[i]]
        \o Rep((4 - (Len(str) % 4)) % 4, 61)

NoSig == Sig(<<>>, <<>>, Undefined)

\* one application: the function, its arguments, what it returned or threw
Applied(op, sig, flag, bytes, str, out) ==
    [op |-> op, sig |-> sig, flag |-> flag, bytes |-> bytes, str |-> str, out |-> out]

InitJose ==
    /\ ctx = <<>> /\ litCtx = <<>> /\ heap = <<>> /\ calls = <<>> /\ jws = <<>>
    /\ jose = Applied("", NoSig, FALSE, <<>>, <<>>, Throw(""))

applyToJose ==
    \E r \in HexStrings, s \in HexStrings, rp \in RecoveryParams, recoverable \in BOOLEAN :
        /\ jose.op = ""
        /\ jose' = Applied("toJose", Sig(r, s, rp), recoverable, <<>>, <<>>,
                           toJose(Sig(r, s, rp), recoverable))
        /\ UNCHANGED <<ctx, litCtx, heap, calls, jws>>

\* fromJose of a string that encodes bytes, as base64url or as base64
applyFromJose ==
    \E bytes \in SignatureBytes, padded \in BOOLEAN :
        LET str == IF padded THEN base64Of(bytesToBase64url(bytes))
                   ELSE bytesToBase64url(bytes)
        IN  /\ jose.op = ""
            /\ jose' = Applied("fromJose", NoSig, padded, bytes, str, fromJose(str))
            /\ UNCHANGED <<ctx, litCtx, heap, calls, jws>>

\* fromJose(toJose(sig, true))
applyRoundTrip ==
    \E r \in HexStrings, s \in HexStrings, rp \in RecoveryParams :
        LET joseStr == toJose(Sig(r, s, rp), TRUE)
        IN  /\ jose.op = ""
            /\ jose' = Applied("roundTrip", Sig(r, s, rp), TRUE, <<>>,
                               joseStr.v,
                               IF joseStr.ok THEN fromJose(joseStr.v) ELSE joseStr)
            /\ UNCHANGED <<ctx, litCtx, heap, calls, jws>>

\* the local signer on what keyPair.sign returned
applyES256KSigner ==
    \E r \in EcHexStrings, s \in EcHexStrings, rp \in {0, 1},
       recoverable \in BOOLEAN, key \in {Seed, SeedShort} :
        /\ jose.op = ""
        /\ jose' = Applied("ES256KSigner", Sig(r, s, rp), recoverable, key, <<>>,
                           ES256KSigner(key, recoverable, Sig(r, s, rp)))
        /\ UNCHANGED <<ctx, litCtx, heap, calls, jws>>

\* the remote signer on the sig1 the signing service returned
applyES256KSignerWithLit ==
    \E r \in HexStrings, s \in HexStrings, recid \in {0, 1} :
        /\ jose.op = ""
        /\ jose' = Applied("ES256KSignerWithLit", Sig(r, s, recid), FALSE, <<>>, <<>>,
                           ES256KSignerWithLit([r |-> r, s |-> s, recid |-> recid]))
        /\ UNCHANGED <<ctx, litCtx, heap, calls, jws>>

NextJose ==
    \/ applyToJose
    \/ applyFromJose
    \/ applyRoundTrip
    \/ applyES256KSigner
    \/ applyES256KSignerWithLit

SpecJose == InitJose /\ [][NextJose]_vars

\* -------------------------------------------------------- the JWS builder

\* payloads of createJWS: objects in two key orders, flat and nested, an
\* object with a '.' in a value, a base64url string and a string with a '.'
PayloadNestedAB == JObj(<<Member(<<97>>, PayloadAB), Member(<<98>>, JArr(<<JNum(3)>>))>>)
PayloadNestedBA == JObj(<<Member(<<98>>, JArr(<<JNum(3)>>)), Member(<<97>>, PayloadBA)>>)
PayloadDotValue == JObj(<<Member(<<97>>, JStr(<<49, 46, 53>>))>>)
JWSPayloads == Payloads \cup {PayloadAB, PayloadNestedAB, PayloadNestedBA, PayloadDotValue}

\* headers of createJWS: {}, {alg: ''}, {alg: 'ES256K', kid}, {alg: 'none'},
\* {typ: 'JWT'}
JWSHeaders ==
    { JObj(<<>>),
      JObj(<<Member(strAlg, JStr(<<>>))>>),
      JObj(<<Member(strAlg, JStr(strES256K)), Member(strKid, JStr(kidOf(DidA)))>>),
      JObj(<<Member(strAlg, JStr(strNone))>>),
      JObj(<<Member(strTyp, JStr(strJWT))>>) }

\* what a signer can resolve to: signature objects and strings, one with a '.'
SignerResults ==
    { SignedObject(Sig(HexFull, HexFull, 0)),
      SignedObject(Sig(Hex62, HexFull, Undefined)),
      SignedString(bytesToBase64url(Pattern(64, 3))),
      SignedString(<<101, 51, 48, 46, 101, 51, 48>>) }

\* compact strings toGeneralJWS can be handed: 1 to 5 parts
Compacts ==
    { Flatten([i \in 1..(2 * n - 1) |-> IF i % 2 = 1 THEN <<101, 51, 48 + i>> ELSE <<46>>]) :
        n \in 1..5 } \cup {<<>>, <<46, 46>>}

\* whether two JSON values hold the same keys and values, in any key order
RECURSIVE SameValue(_, _)
SameValue(a, b) ==
    /\ a.t = b.t
    /\ a.s = b.s
    /\ Len(a.kv) = Len(b.kv)
    /\ IF a.t = "array"
       THEN \A i \in 1..Len(a.kv) : SameValue(a.kv[i].v, b.kv[i].v)
       ELSE \A i \in 1..Len(a.kv) :
                /\ HasKey(b, a.kv[i].k)
                /\ SameValue(a.kv[i].v, Get(b, a.kv[i].k))

\* one application to payload and, for comparison, to payload2, which holds
\* what payload holds: input and input2 are the signing inputs built
AppliedJWS(op, payload, payload2, header, signed, str, input, input2, out) ==
    [op |-> op, payload |-> payload, payload2 |-> payload2, header |-> header,
     signed |-> signed, str |-> str, input |-> input, input2 |-> input2, out |-> out]

InitJWS ==
    /\ ctx = <<>> /\ litCtx = <<>> /\ heap = <<>> /\ calls = <<>> /\ jose = <<>>
    /\ jws = AppliedJWS("", JUndefined, JUndefined, JUndefined, SignedString(<<>>),
                        <<>>, Throw(""), Throw(""), Throw(""))

applyCreateJWS ==
    \E payload \in JWSPayloads, payload2 \in JWSPayloads, header \in JWSHeaders,
       signed \in SignerResults :
        /\ jws.op = ""
        /\ SameValue(payload, payload2)
        /\ jws' = AppliedJWS("createJWS", payload, payload2, header, signed, <<>>,
                             createJWSInput(payload, header),
                             createJWSInput(payload2, header),
                             createJWS(payload, signed, header))
        /\ UNCHANGED <<ctx, litCtx, heap, calls, jose>>

applyCreateJWS2 ==
    \E payload \in JWSPayloads, payload2 \in JWSPayloads, header \in JWSHeaders,
       signed \in SignerResults :
        /\ jws.op = ""
        /\ SameValue(payload, payload2)
        /\ jws' = AppliedJWS("createJWS2", payload, payload2, header, signed, <<>>,
                             createJWSInput(payload, header),
                             createJWSInput(payload2, header),
                             createJWS2(payload, signed, header))
        /\ UNCHANGED <<ctx, litCtx, heap, calls, jose>>

\* sign on a payload and a protected header, with the local signer
applySign ==
    \E payload \in JWSPayloads, payload2 \in JWSPayloads, header \in JWSHeaders,
       did \in DIDs, ec \in EcSignatures :
        LET one == sign(payload, did, Seed, header, ec)
            two == sign(payload2, did, Seed, header, ec)
        IN  /\ jws.op = ""
            /\ SameValue(payload, payload2)
            /\ jws' = AppliedJWS("sign", payload, payload2, header,
                                 SignedObject(ec), did, one.input, two.input,
                                 one.compact)
            /\ UNCHANGED <<ctx, litCtx, heap, calls, jose>>

\* signWithLit on a payload and a protected header, with the remote signer
applySignWithLit ==
    \E payload \in JWSPayloads, payload2 \in JWSPayloads, header \in JWSHeaders,
       did \in DIDs, sig1 \in LitSignatures :
        LET one == signWithLit(payload, did, header)
            two == signWithLit(payload2, did, header)
        IN  /\ jws.op = ""
            /\ SameValue(payload, payload2)
            /\ jws' = AppliedJWS("signWithLit", payload, payload2, header,
                                 SignedObject(Sig(sig1.r, sig1.s, sig1.recid)), did,
                                 one.input, two.input,
                                 IF one.input.ok
                                 THEN signWithLitResume(one.input.v, sig1)
                                 ELSE one.input)
            /\ UNCHANGED <<ctx, litCtx, heap, calls, jose>>

applyToGeneralJWS ==
    \E compact \in Compacts :
        /\ jws.op = ""
        /\ jws' = AppliedJWS("toGeneralJWS", JUndefined, JUndefined, JUndefined,
                             SignedString(<<>>), compact, Throw(""), Throw(""),
                             Ok(toGeneralJWS(compact)))
        /\ UNCHANGED <<ctx, litCtx, heap, calls, jose>>

NextJWS ==
    \/ applyCreateJWS
    \/ applyCreateJWS2
    \/ applySign
    \/ applySignWithLit
    \/ applyToGeneralJWS

SpecJWS == InitJWS /\ [][NextJWS]_vars

\* ------------------------------------------------------------------ claims

Signing(c) == calls[c].method \in {"did_authenticate", "did_createJWS"}
Returned(c) == calls[c].pc = "done"

CountOf(s, ch) == Cardinality({i \in 1..Len(s) : s[i] = ch})
DotFree(s) == CountOf(s, 46) = 0

\* the part of a string before its first '#'
BeforeHash(s) ==
    LET at == {i \in 1..Len(s) : s[i] = 35}
    IN  IF at = {} THEN s
        ELSE SubSeq(s, 1, (CHOOSE i \in at : \A j \in at : i <= j) - 1)

\* '{"a":1,"b":"2"}', the canonical JSON text of PayloadAB and PayloadBA
TextAB == <<123, 34, 97, 34, 58, 49, 44, 34, 98, 34, 58, 34, 50, 34, 125>>

\* C1: a did_createJWS request whose params.did, up to the first '#', is not
\* the context's DID fails with RPC error 4100 and no signing operation; one
\* whose DID portion is the context's DID is signed (one signing operation, no
\* error) and returns {jws: GeneralJWS} over params.payload.
C1_UnknownDID ==
    \A c \in Calls :
        calls[c].method = "did_createJWS" =>
            IF BeforeHash(calls[c].params.did) # calls[c].before.ctx.did
            THEN /\ calls[c].pc = "failed"
                 /\ calls[c].errCode = 4100
                 /\ calls[c].signCount = 0
                 /\ calls[c].result.kind = ""
            ELSE /\ calls[c].pc \in {"signed", "done"}
                 /\ calls[c].errCode = 0
                 /\ calls[c].signCount = 1
                 /\ Returned(c) =>
                        /\ calls[c].result.kind = "jws"
                        /\ Len(calls[c].result.jws.signatures) = 1
                        /\ calls[c].params.payload.t = "object" =>
                              base64ToBytes(calls[c].result.jws.payload) = Ok(TextAB)
                        /\ calls[c].params.payload = PayloadString =>
                              calls[c].result.jws.payload = PayloadString.s

C1_Witness ==
    \E c, d \in Calls :
        /\ calls[c].method = "did_createJWS" /\ calls[c].errCode = 4100
        /\ calls[d].method = "did_createJWS" /\ Returned(d)
        /\ calls[d].params.did = kidOf(calls[d].before.ctx.did)

\* the DID a call's provider holds, and the protected header its caller gave
DidOf(c) == IF calls[c].provider = "lit" THEN calls[c].before.litCtx.did
            ELSE calls[c].before.ctx.did
CallerHeader(c) ==
    IF calls[c].params.protected = 0 THEN JObj(<<>>)
    ELSE calls[c].before.heap[calls[c].params.protected]
Keys(obj) == {obj.kv[i].k : i \in 1..Len(obj.kv)}

\* "<did>#<did-fragment>": the DID, '#', and what follows "did:key:"
ExpectedKid(did) == did \o <<35>> \o SubSeq(did, 9, Len(did))

\* C2: on every signing path the protected header has alg "ES256K" and kid
\* "<did>#<did-fragment>" of the provider's DID, whatever kid and alg the caller
\* supplied (no caller-supplied alg makes the call fail); every other
\* caller-supplied field is kept, nothing else is added, and the protected part
\* of the returned JWS is that header.
C2_HeaderForced ==
    \A c \in Calls :
        (Signing(c) /\ calls[c].errCode # 4100) =>
            LET h == calls[c].header
            IN  /\ calls[c].input.ok
                /\ Get(h, strAlg) = JStr(strES256K)
                /\ Get(h, strKid) = JStr(ExpectedKid(DidOf(c)))
                /\ Keys(h) = Keys(CallerHeader(c)) \cup {strAlg, strKid}
                /\ \A k \in Keys(CallerHeader(c)) \ {strAlg, strKid} :
                        Get(h, k) = Get(CallerHeader(c), k)
                /\ Returned(c) =>
                        base64ToBytes(calls[c].result.jws.signatures[1].protected)
                            = Ok(utf8FromString(JSONstringify(h)))

C2_Witness ==
    \E c \in Calls :
        /\ calls[c].method = "did_createJWS" /\ Returned(c)
        /\ Get(CallerHeader(c), strAlg) = JStr(strNone)
        /\ Get(CallerHeader(c), strKid) = JStr(<<120>>)
        /\ Get(calls[c].header, strTyp) = JStr(strJWT)

PayloadDotFree(payload) == payload.t # "string" \/ DotFree(payload.s)
SignedDotFree(signed) == signed.kind = "object" \/ DotFree(signed.str)

\* C3 as stated: whatever the payload, the header and the signer, the compact
\* JWS createJWS returns has exactly two '.'.
C3_AnyPayload ==
    (jws.op \in {"createJWS", "createJWS2"} /\ jws.out.ok) =>
        CountOf(jws.out.v, 46) = 2

\* C3, amended: for a payload that is an object or a string without '.', and a
\* signer that resolves to a signature object or to a string without '.', the
\* compact JWS createJWS returns has exactly two '.' and splits in three parts.
C3_TwoSeparators ==
    (/\ jws.op \in {"createJWS", "createJWS2"}
     /\ jws.out.ok
     /\ PayloadDotFree(jws.payload)
     /\ SignedDotFree(jws.signed)) =>
        /\ CountOf(jws.out.v, 46) = 2
        /\ Len(split(jws.out.v, 46)) = 3

C3_Witness ==
    /\ jws.op = "createJWS" /\ jws.out.ok
    /\ jws.payload = PayloadDotValue
    /\ jws.signed.kind = "string" /\ DotFree(jws.signed.str)
    /\ CountOf(jws.out.v, 46) = 2

IsHex64(s) == Len(s) = 64 /\ \A i \in 1..64 : HexValue(s[i]) >= 0

\* C4 as stated: fromJose(toJose(sig, true)) is sig for every r and s that fit
\* 32 bytes, hex strings of fewer than 64 digits included, and recoveryParam 0
\* or 1.
C4_AnyWidth ==
    (/\ jose.op = "roundTrip"
     /\ Len(jose.sig.r) <= 64 /\ Len(jose.sig.s) <= 64
     /\ jose.sig.recoveryParam \in {0, 1}) =>
        jose.out = Ok(jose.sig)

\* C4, amended: fromJose(toJose(sig, true)) is sig for every r and s of
\* exactly 64 lower-case hex digits and recoveryParam 0 or 1.
C4_RoundTrip ==
    (/\ jose.op = "roundTrip"
     /\ IsHex64(jose.sig.r) /\ IsHex64(jose.sig.s)
     /\ jose.sig.recoveryParam \in {0, 1}) =>
        jose.out = Ok(jose.sig)

C4_Witness ==
    /\ jose.op = "roundTrip"
    /\ jose.sig = Sig(HexZeros, HexFull, 1)
    /\ jose.out.ok /\ jose.out.v.r = HexZeros

\* C5: fromJose throws its wrong-size error for every input that decodes to
\* other than 64 or 65 bytes; for 64 bytes it returns r and s and no
\* recoveryParam, for 65 bytes r, s and the last byte as recoveryParam.
C5_FromJoseLength ==
    jose.op = "fromJose" =>
        IF Len(jose.bytes) \notin {64, 65}
        THEN ~jose.out.ok /\ jose.out.err = "Wrong size for signature"
        ELSE /\ jose.out.ok
             /\ jose.out.v.r = bytesToHex(SubSeq(jose.bytes, 1, 32))
             /\ jose.out.v.s = bytesToHex(SubSeq(jose.bytes, 33, 64))
             /\ jose.out.v.recoveryParam =
                    IF Len(jose.bytes) = 65 THEN jose.bytes[65] ELSE Undefined

C5_Witness ==
    /\ jose.op = "fromJose"
    /\ Len(jose.bytes) = 66
    /\ jose.out.err = "Wrong size for signature"

\* C6: a did_authenticate or did_createJWS call that returned a result has
\* invoked the signer backend exactly once, and no call, at any point of any
\* interleaving, has invoked it twice.
C6_OneSigning ==
    \A c \in Calls :
        /\ calls[c].signCount <= 1
        /\ (Signing(c) /\ Returned(c)) => calls[c].signCount = 1

C6_Witness ==
    \E c, d \in Calls :
        /\ calls[c].provider = "lit" /\ Returned(c) /\ calls[c].signCount = 1
        /\ calls[d].provider = "local" /\ Returned(d) /\ Signing(d)
        /\ calls[d].signCount = 1

\* C7 as stated: createJWS builds the same encoded payload and signing input
\* for two object payloads that hold the same keys and values in a different
\* key order.
C7_CreateJWSCanonical ==
    (/\ jws.op \in {"createJWS", "createJWS2"}
     /\ jws.payload.t = "object"
     /\ jws.input.ok) =>
        /\ jws.input2.v.encodedPayload = jws.input.v.encodedPayload
        /\ jws.input2.v.signingInput = jws.input.v.signingInput

\* C7, amended: sign and signWithLit build the same encoded payload and
\* signing input for two object payloads that hold the same keys and values in
\* a different key order (same DID, same protected header): the payload is
\* key-sorted by toStableObject before createJWS encodes it.
C7_SignCanonical ==
    (/\ jws.op \in {"sign", "signWithLit"}
     /\ jws.payload.t = "object"
     /\ jws.input.ok) =>
        /\ jws.input2.v.encodedPayload = jws.input.v.encodedPayload
        /\ jws.input2.v.signingInput = jws.input.v.signingInput

C7_Witness ==
    /\ jws.op = "sign"
    /\ jws.payload = PayloadNestedAB /\ jws.payload2 = PayloadNestedBA
    /\ jws.input.ok /\ jws.out.ok

\* C8: toGeneralJWS fails for every string that does not split on '.' in
\* exactly three parts, and for three parts returns that payload with one
\* signature entry {protected, signature}.
C8_MalformedJWS ==
    jws.op = "toGeneralJWS" =>
        LET parts == split(jws.str, 46)
        IN  IF Len(parts) # 3 THEN ~jws.out.ok
            ELSE /\ jws.out.ok
                 /\ jws.out.v.payload = parts[2]
                 /\ jws.out.v.signatures =
                        <<[protected |-> parts[1], signature |-> parts[3]]>>

\* a value below 2^256, given in hex, as 32 big-endian bytes
BigEndian32(hex) ==
    LET pad == 64 - Len(hex)
        nibble(j) == IF j <= pad THEN 0 ELSE HexValue(hex[j - pad])
    IN  [i \in 1..32 |-> 16 * nibble(2 * i - 1) + nibble(2 * i)]

\* C9: for every r and s below 2^256 the signing backend returns, short hex
\* forms included, the JOSE signature of the local and of the remote signer
\* holds r as 32 big-endian bytes at 0..31 and s at 32..63.
C9_FixedWidth ==
    (/\ jose.op \in {"ES256KSigner", "ES256KSignerWithLit"}
     /\ jose.op = "ES256KSigner" => Len(jose.bytes) = 32
     /\ Len(jose.sig.r) <= 64 /\ Len(jose.sig.s) <= 64) =>
        /\ jose.out.ok
        /\ LET b == base64ToBytes(jose.out.v)
           IN  /\ b.ok
               /\ SubSeq(b.v, 1, 32) = BigEndian32(jose.sig.r)
               /\ SubSeq(b.v, 33, 64) = BigEndian32(jose.sig.s)

\* C10: once a call has returned or failed, the provider's contexts and the
\* caller's protected-header objects are as the call found them.
C10_NothingOutlives ==
    \A c \in Calls :
        calls[c].pc \in {"done", "failed"} => Snapshot = calls[c].before

====
